---- MODULE Spec2Model ----
(***************************************************************************)
(* Model of the music-indexer ingestion pipeline (src/indexer.py):         *)
(* index_all walks the directory listing and calls process_file on each    *)
(* file; process_file runs duplicate check, stability check, audio         *)
(* inspection, AcoustID identification, MusicBrainz enrichment, ID3 tag    *)
(* writing and the MongoDB upsert.                                         *)
(*                                                                         *)
(* Strings are sequences of one-character strings, so that lower(),        *)
(* strip() and the regular-expression substitution act on characters.      *)
(* Python's None is the one-element sequence <<"None">>, which no string   *)
(* of characters equals.                                                   *)
(***************************************************************************)
EXTENDS Integers, Sequences, FiniteSets, TLC

\* ---------------------------------------------------------------- bounds
NumFiles == 2
MaxBatches == 2
MaxLen == 3

\* ------------------------------------------------------ program constants
StabilityWait == 5
RateLimitPause == 1

\* ------------------------------------------------------ values
None == <<"None">>
EmptyDict == <<>>

Files == 1..NumFiles

\* Recording identifiers of the registry
MBID1 == <<"m", "b", "i", "d", "-", "1">>
MBID2 == <<"u", "1">>

\* file_path.stem of the f-th file of the listing: "T-7.mp3", then a file
\* named after a recording identifier, "u1.mp3", then "s3.mp3", "s4.mp3", ...
Stem(f) ==
  IF f = 1 THEN <<"T", "-", "7">>
  ELSE IF f = 2 THEN MBID2
  ELSE <<"s", ToString(f)>>

\* str(file_path.resolve())
AbsPath(f) == <<"/dl/">> \o Stem(f) \o <<".mp3">>

\* Python truthiness of an optional string or list
Truthy(v) == v # None /\ v # <<>>

\* Python's  a or b
Or(a, b) == IF Truthy(a) THEN a ELSE b

\* dict.get(key) and dict.get(key, default)
GetOr(d, k, default) == IF k \in DOMAIN d THEN d[k] ELSE default
Get(d, k) == GetOr(d, k, None)

\* ------------------------------------------------------ normalise_string
UpperCase == {"A", "D", "J", "T", "U"}
LowerCase == {"a", "d", "f", "i", "j", "k", "n", "o", "s", "t", "u", "w", "z"}
Digits == {"0", "1", "2", "3", "4", "7"}
Whitespace == {" "}

\* str.lower() on one character
ToLower(c) ==
  CASE c = "A" -> "a"
    [] c = "D" -> "d"
    [] c = "J" -> "j"
    [] c = "T" -> "t"
    [] c = "U" -> "u"
    [] OTHER -> c

RECURSIVE LStrip(_)
LStrip(s) ==
  IF s # <<>> /\ Head(s) \in Whitespace THEN LStrip(Tail(s)) ELSE s

RECURSIVE RStrip(_)
RStrip(s) ==
  IF s # <<>> /\ s[Len(s)] \in Whitespace
  THEN RStrip(SubSeq(s, 1, Len(s) - 1))
  ELSE s

Strip(s) == RStrip(LStrip(s))

Lower(s) == [i \in 1..Len(s) |-> ToLower(s[i])]

\* re.sub(r"[^a-z0-9\s]", "", value)
Kept(c) == c \in LowerCase \cup Digits \cup Whitespace
RemovePunct(s) == SelectSeq(s, Kept)

normalise_string(value) == RemovePunct(Strip(Lower(value)))

\* ------------------------------------------------------ external data
\* audio.info of the file as mutagen reports it (length in ms, bitrate in bit/s)
AudioInfo(f) == [length_ms |-> 200500 + f, bitrate |-> 128999]

Unknown == <<"U", "n", "k", "n", "o", "w", "n">>
Score1 == <<"0.9">>
Jazz == <<"J", "a", "z", "z">>
Fusion == <<"f", "u", "s", "i", "o", "n">>
Rock == <<"r", "o", "c", "k">>

\* The first candidate acoustid.parse_lookup_result yields for a file when the
\* service recognises its audio: (score, uuid, rec_title, rec_artist), title
\* and artist possibly missing. The first file is recording MBID1, the second
\* is recording MBID2 (the identifier it is named after), and the service
\* knows no other file of the listing.
Candidates(f) ==
  IF f = 1
  THEN { [score |-> Score1, uuid |-> MBID1,
          title |-> <<"D", "a", " ", "-", " ", "T", "!">>,
          artist |-> <<"A", "-", "d">>] }
  ELSE IF f = 2
  THEN { [score |-> Score1, uuid |-> MBID2, title |-> None, artist |-> None] }
  ELSE {}

\* Outcomes of the try block of the AcoustID stage
AcoustidErrors == {"fingerprint_error", "lookup_error", "parse_error"}
OtherErrors == {"other_error"}

\* Responses of musicbrainzngs.get_recording_by_id
RespFull ==
  [recording |->
     [credit |-> << [name |-> <<"D", "a">>, joinphrase |-> <<" ", "&", " ">>],
                    [name |-> <<"T", "o">>, joinphrase |-> <<>>] >>,
      releases |-> << [title |-> <<" ", "A", "-", "1">>, date |-> <<"2", "0", "0", "1">>],
                      [title |-> <<"Z">>] >>,
      tags |-> <<Jazz, Fusion>>]]
RespSparse == [recording |-> [credit |-> <<>>, releases |-> <<>>, tags |-> <<>>]]
Responses == {RespFull, RespSparse}
\* get_recording_by_id raising (not found, network, malformed response)
RespError == [error |-> "ResponseError"]
RegistryOutcomes == Responses \cup {RespError}

\* ------------------------------------------------------ fetch_musicbrainz_metadata
RECURSIVE JoinCredit(_)
JoinCredit(artists) ==
  IF artists = <<>> THEN <<>>
  ELSE Head(artists).name \o Head(artists).joinphrase \o JoinCredit(Tail(artists))

LowerOrNone(v) == IF Truthy(v) THEN Lower(v) ELSE None

fetch_musicbrainz_metadata(resp) ==
  IF "error" \in DOMAIN resp THEN EmptyDict
  ELSE
    LET rec == resp.recording
        mbtags == rec.tags
        mbartist == IF rec.credit # <<>> THEN JoinCredit(rec.credit) ELSE None
        releases == rec.releases
        album == IF releases # <<>> THEN releases[1].title ELSE None
        release_date ==
          IF releases # <<>> /\ "date" \in DOMAIN releases[1]
          THEN releases[1].date ELSE None
    IN [mb_artist |-> mbartist,
        mb_artist_lower |-> LowerOrNone(mbartist),
        genres |-> mbtags,
        genres_lower |-> [i \in 1..Len(mbtags) |-> Lower(mbtags[i])],
        album |-> album,
        album_lower |-> LowerOrNone(album),
        release_date |-> release_date]

\* ------------------------------------------------------ write_id3_tags
\* Tag container of a file: NoTags when the file has no ID3 header, otherwise
\* a dictionary of the fields that are set.
NoTags == [no_header |-> TRUE]
HasNoHeader(container) == "no_header" \in DOMAIN container

\* Where the tag write may fail: opening for another reason than a missing
\* header, creating the container, reopening it, setting a field, saving.
TagFailures(old) ==
  IF HasNoHeader(old) THEN {"none", "open", "create", "reopen", "set", "save"}
  ELSE {"none", "open", "set", "save"}

\* The field assignments without their guards: every field is written
SetTagsAlways(container, title_, artist_, album_, genres_, release_date_) ==
  ("title" :> title_) @@ ("artist" :> artist_) @@ ("album" :> album_) @@
  ("genre" :> genres_) @@ ("date" :> release_date_) @@ container

SetTags(container, title_, artist_, album_, genres_, release_date_) ==
  LET t1 == ("title" :> title_) @@ ("artist" :> artist_) @@ container
      t2 == IF Truthy(album_) THEN ("album" :> album_) @@ t1 ELSE t1
      t3 == IF Truthy(genres_) THEN ("genre" :> genres_) @@ t2 ELSE t2
      t4 == IF Truthy(release_date_) THEN ("date" :> release_date_) @@ t3 ELSE t3
  IN t4

\* The container on disk after the call
write_id3_tags(old, title_, artist_, album_, genres_, release_date_, fail) ==
  IF fail = "open" THEN old
  ELSE IF HasNoHeader(old) /\ fail = "create" THEN old
  ELSE
    LET opened == IF HasNoHeader(old) THEN EmptyDict ELSE old
    IN IF fail \in {"reopen", "set", "save"} THEN opened
       ELSE SetTags(opened, title_, artist_, album_, genres_, release_date_)

\* ------------------------------------------------------ document
DocFields ==
  {"_id", "music_id", "music_file", "title", "title_lower", "artist",
   "artist_lower", "album", "album_lower", "genres", "genres_lower",
   "release_date", "audio_features", "sources", "date_added", "notes"}

BuildDoc(f, music_id_, title_, final_artist, mb, final_genres, duration_, bitrate_, score_, now) ==
  ("_id" :> AbsPath(f)) @@
  [music_id |-> music_id_,
   music_file |-> AbsPath(f),
   title |-> title_,
   title_lower |-> normalise_string(title_),
   artist |-> final_artist,
   artist_lower |-> normalise_string(final_artist),
   album |-> Get(mb, "album"),
   album_lower |-> IF Truthy(Get(mb, "album"))
                   THEN normalise_string(mb["album"]) ELSE None,
   genres |-> final_genres,
   genres_lower |-> [i \in 1..Len(final_genres) |-> normalise_string(final_genres[i])],
   release_date |-> Get(mb, "release_date"),
   audio_features |-> [duration_seconds |-> duration_, bitrate_kbps |-> bitrate_],
   sources |-> [acoustid_score |-> score_, musicbrainz_id |-> music_id_],
   date_added |-> now,
   notes |-> <<"Auto-indexed">>]

\* ------------------------------------------------------ document store
\* collection.find_one({"music_file": path}): some document, or None
HasMusicFile(st, path) ==
  \E k \in DOMAIN st : "music_file" \in DOMAIN st[k] /\ st[k]["music_file"] = path

\* collection.update_one({"_id": key}, {"$set": doc}, upsert=True)
UpdateOneSet(st, key, doc) ==
  IF key \in DOMAIN st
  THEN [st EXCEPT ![key] = doc @@ st[key]]
  ELSE (key :> doc) @@ st

\* What the collection may hold before the first batch: nothing, or a
\* document an earlier tool left under the key of the first file.
LegacyDoc ==
  ("_id" :> AbsPath(1)) @@
  [title |-> <<"o", "l", "d">>, genres |-> <<Rock>>, rating |-> <<"5">>]
EmptyStore == <<>>
InitStores == {EmptyStore, (AbsPath(1) :> LegacyDoc)}

\* Tags the files carry before the first batch
InitTags(f) ==
  IF f = 1 THEN NoTags
  ELSE [title |-> <<"o", "l", "d">>, artist |-> <<"A">>, album |-> <<"O">>,
        genre |-> <<Rock>>, date |-> <<"1", "9", "9", "9">>]

\* ------------------------------------------------------ state
VARIABLES
  store,          \* the tracks collection: _id -> document
  tags,           \* file -> its ID3 container
  clock,          \* seconds elapsed (time.sleep, datetime.now)
  batch,          \* number of index_all invocations started
  bpc,            \* index_all: "idle", "running", "done", "crashed"
  idx,            \* position of index_all in the listing
  pc,             \* process_file: the stage about to run
  cur,            \* file_path of the running process_file
  sizes,          \* the st_size values is_file_stable has read
  audio,          \* duration and bitrate read by the audio inspection
  music_id, title, artist, acoustid_score, mb_data,
  trace,          \* external calls process_file has issued in this run
  outcome,        \* file -> how its process_file ended in this batch
  regLog,         \* times at which registry calls of this batch were issued
  firstPersisted, \* file -> its stored document right after its first upsert
  storeAtStart,   \* the collection as it was when the running process_file began
  nstr,           \* a string handed to normalise_string
  nres            \* the results of applying normalise_string to it, again and again

vars ==
  <<store, tags, clock, batch, bpc, idx, pc, cur, sizes, audio, music_id, title,
    artist, acoustid_score, mb_data, trace, outcome, regLog, firstPersisted,
    storeAtStart, nstr, nres>>

normVars == <<nstr, nres>>

locals == <<sizes, audio, music_id, title, artist, acoustid_score, mb_data>>

Init ==
  /\ store \in InitStores
  /\ tags = [f \in Files |-> InitTags(f)]
  /\ clock = 0
  /\ batch = 0
  /\ bpc = "idle"
  /\ idx = 1
  /\ pc = "none"
  /\ cur = 1
  /\ sizes = <<>>
  /\ audio = None
  /\ music_id = None
  /\ title = None
  /\ artist = None
  /\ acoustid_score = None
  /\ mb_data = EmptyDict
  /\ trace = <<>>
  /\ outcome = [f \in Files |-> "none"]
  /\ regLog = <<>>
  /\ firstPersisted = <<>>
  /\ storeAtStart = store
  /\ nstr = <<>>
  /\ nres = <<>>

\* ------------------------------------------------------ index_all
\* The time at which the b-th invocation of the program starts: later than
\* anything the invocation before it can have done.
StartTime(b) == b * 100

\* The program is started: a fresh process, whose index_all begins iterating
\* the listing.
StartBatch ==
  /\ bpc \in {"idle", "done", "crashed"}
  /\ batch < MaxBatches
  /\ batch' = batch + 1
  /\ bpc' = "running"
  /\ idx' = 1
  /\ pc' = "none"
  /\ cur' = 1
  /\ clock' = StartTime(batch')
  /\ outcome' = [f \in Files |-> "none"]
  /\ regLog' = <<>>
  /\ trace' = <<>>
  /\ sizes' = <<>>
  /\ audio' = None
  /\ music_id' = None
  /\ title' = None
  /\ artist' = None
  /\ acoustid_score' = None
  /\ mb_data' = EmptyDict
  /\ storeAtStart' = store
  /\ UNCHANGED <<store, tags, firstPersisted>>
  /\ UNCHANGED normVars

\* for file_path in DOWNLOAD_DIR.glob("*.mp3"): process_file(file_path)
NextFile ==
  /\ bpc = "running"
  /\ pc \in {"none", "returned"}
  /\ idx <= NumFiles
  /\ cur' = idx
  /\ idx' = idx + 1
  /\ pc' = "dupcheck"
  /\ sizes' = <<>>
  /\ audio' = None
  /\ music_id' = None
  /\ title' = None
  /\ artist' = None
  /\ acoustid_score' = None
  /\ mb_data' = EmptyDict
  /\ trace' = <<>>
  /\ storeAtStart' = store
  /\ UNCHANGED <<store, tags, clock, batch, bpc, outcome, regLog, firstPersisted>>
  /\ UNCHANGED normVars

\* The loop is exhausted: index_all returns and "Indexing complete." is printed.
FinishBatch ==
  /\ bpc = "running"
  /\ pc \in {"none", "returned"}
  /\ idx > NumFiles
  /\ bpc' = "done"
  /\ UNCHANGED <<store, tags, clock, batch, idx, pc, cur, locals, trace, outcome,
                 regLog, firstPersisted, storeAtStart>>
  /\ UNCHANGED normVars

\* index_all with a handler around process_file that goes on to the next file
PropagateSwallowed(kind) ==
  /\ pc' = "returned"
  /\ bpc' = bpc
  /\ outcome' = [outcome EXCEPT ![cur] = kind]

\* An exception leaves process_file: index_all has no handler, so it leaves
\* index_all and the program too.
Propagate(kind) ==
  /\ pc' = "raised"
  /\ bpc' = "crashed"
  /\ outcome' = [outcome EXCEPT ![cur] = kind]

\* process_file returns with the given outcome.
Return(kind) ==
  /\ pc' = "returned"
  /\ bpc' = bpc
  /\ outcome' = [outcome EXCEPT ![cur] = kind]

\* process_file goes on to the next stage.
Goto(stage) ==
  /\ pc' = stage
  /\ bpc' = bpc
  /\ outcome' = outcome

\* ------------------------------------------------------ process_file
\* The duplicate probe made with the path as listed instead of the resolved one
AlreadyIndexedByName(st, f) == HasMusicFile(st, Stem(f) \o <<".mp3">>)

\* The probe without its path filter: any stored document answers it
AlreadyIndexedAnyPath(st, f) == DOMAIN st # {}

\* if collection.find_one({"music_file": str(file_path.resolve())})
AlreadyIndexed(st, f) == HasMusicFile(st, AbsPath(f))

\* The head of process_file with the stability check placed before the probe
DupCheckAfterStability ==
  /\ bpc = "running"
  /\ pc = "dupcheck"
  /\ \E s2 \in {100, 200, 300} :
       /\ sizes' = <<200, s2>>
       /\ clock' = clock + StabilityWait
       /\ IF s2 # 200
          THEN /\ trace' = trace \o <<"stat", "stat">>
               /\ Return("SKIPPED_UNSTABLE")
          ELSE /\ trace' = trace \o <<"stat", "stat", "find_one">>
               /\ IF AlreadyIndexed(store, cur)
                  THEN Return("SKIPPED_DUPLICATE")
                  ELSE Goto("inspect")
  /\ UNCHANGED <<store, tags, batch, idx, cur, audio, music_id, title, artist,
                 acoustid_score, mb_data, regLog, firstPersisted, storeAtStart>>
  /\ UNCHANGED normVars

DupCheck ==
  /\ bpc = "running"
  /\ pc = "dupcheck"
  /\ \E storeUp \in BOOLEAN :
       IF ~storeUp
       THEN /\ trace' = Append(trace, "find_one_failed")
            /\ Propagate("FATAL_STORE")
       ELSE /\ trace' = Append(trace, "find_one")
            /\ IF AlreadyIndexed(store, cur)
               THEN Return("SKIPPED_DUPLICATE")
               ELSE Goto("stability")
  /\ UNCHANGED <<store, tags, clock, batch, idx, cur, locals, regLog, firstPersisted,
                 storeAtStart>>
  /\ UNCHANGED normVars

\* st_size of the file at the first read, and the sizes the second read may
\* find: shrunk, unchanged, grown
FirstSize(f) == 200
SecondSizes(f) == {100, 200, 300}

\* The comparison taking only growth for a change
StableUnlessGrown(read) == read[2] <= read[1]

\* return path.stat().st_size == initial_size
is_file_stable(read) == read[2] = read[1]

\* if not is_file_stable(file_path): return
StabilityCheck ==
  /\ bpc = "running"
  /\ pc = "stability"
  /\ \/ \* the first stat raises: the file is gone
        /\ sizes' = <<>>
        /\ clock' = clock
        /\ trace' = Append(trace, "stat_failed")
        /\ Propagate("FATAL_VANISHED")
     \/ \* the file goes away during the wait
        \E s1 \in {FirstSize(cur)} :
          /\ sizes' = <<s1>>
          /\ clock' = clock + StabilityWait
          /\ trace' = trace \o <<"stat", "stat_failed">>
          /\ Propagate("FATAL_VANISHED")
     \/ \E s1 \in {FirstSize(cur)}, s2 \in SecondSizes(cur) :
          /\ sizes' = <<s1, s2>>
          /\ clock' = clock + StabilityWait
          /\ trace' = trace \o <<"stat", "stat">>
          /\ IF is_file_stable(<<s1, s2>>)
             THEN Goto("inspect")
             ELSE Return("SKIPPED_UNSTABLE")
  /\ UNCHANGED <<store, tags, batch, idx, cur, audio, music_id, title, artist,
                 acoustid_score, mb_data, regLog, firstPersisted, storeAtStart>>
  /\ UNCHANGED normVars

\* audio = MP3(file_path); duration, bitrate
Inspect ==
  /\ bpc = "running"
  /\ pc = "inspect"
  /\ \E readable \in BOOLEAN :
       IF ~readable
       THEN /\ audio' = None
            /\ trace' = Append(trace, "inspect_failed")
            /\ Propagate("FATAL_VANISHED")
       ELSE /\ audio' = [duration |-> AudioInfo(cur).length_ms \div 1000,
                         bitrate |-> AudioInfo(cur).bitrate \div 1000]
            /\ trace' = Append(trace, "inspect")
            /\ Goto("identify")
  /\ UNCHANGED <<store, tags, clock, batch, idx, cur, sizes, music_id, title, artist,
                 acoustid_score, mb_data, regLog, firstPersisted, storeAtStart>>
  /\ UNCHANGED normVars

\* The external calls the AcoustID stage issued before it failed with e
CallsBefore(e) ==
  IF e = "fingerprint_error" THEN <<"fingerprint">> ELSE <<"fingerprint", "lookup">>

\* except acoustid.AcoustidError: music_id = file_path.stem
FallbackId(f) == Stem(f)

\* The AcoustID stage: defaults, fingerprint, lookup, first candidate.
Identify ==
  /\ bpc = "running"
  /\ pc = "identify"
  /\ \/ \E e \in AcoustidErrors :
          /\ music_id' = FallbackId(cur)
          /\ title' = Stem(cur)
          /\ artist' = Unknown
          /\ acoustid_score' = None
          /\ trace' = trace \o CallsBefore(e) \o <<"acoustid_error">>
          /\ Goto("enrich")
     \/ \* an exception that is no AcoustidError is not caught
        \E e \in OtherErrors :
          /\ music_id' = None
          /\ title' = Stem(cur)
          /\ artist' = Unknown
          /\ acoustid_score' = None
          /\ trace' = trace \o CallsBefore(e) \o <<e>>
          /\ Propagate("FATAL_EXTERNAL")
     \/ \* the lookup answers with no candidate: the loop body never runs
        /\ music_id' = None
        /\ title' = Stem(cur)
        /\ artist' = Unknown
        /\ acoustid_score' = None
        /\ trace' = trace \o <<"fingerprint", "lookup", "no_candidate">>
        /\ Goto("enrich")
     \/ \E c \in Candidates(cur) :
          /\ music_id' = c.uuid
          /\ title' = Or(c.title, Stem(cur))
          /\ artist' = Or(c.artist, Unknown)
          /\ acoustid_score' = c.score
          /\ trace' = trace \o <<"fingerprint", "lookup", "candidate">>
          /\ Goto("enrich")
  /\ UNCHANGED <<store, tags, clock, batch, idx, cur, sizes, audio, mb_data, regLog,
                 firstPersisted, storeAtStart>>
  /\ UNCHANGED normVars

\* if music_id and music_id != file_path.stem
EnrichGate(id, f) == Truthy(id) /\ id # Stem(f)

\* time.sleep(1) after the registry call
PauseAfterRegistry(t) == t + RateLimitPause

Enrich ==
  /\ bpc = "running"
  /\ pc = "enrich"
  /\ IF EnrichGate(music_id, cur)
     THEN \E resp \in RegistryOutcomes :
            /\ mb_data' = fetch_musicbrainz_metadata(resp)
            /\ regLog' = Append(regLog, clock)
            /\ clock' = PauseAfterRegistry(clock)
            /\ trace' = Append(trace, IF resp = RespError THEN "registry_failed"
                                                        ELSE "registry")
     ELSE /\ mb_data' = EmptyDict
          /\ UNCHANGED <<regLog, clock, trace>>
  /\ Goto("tagwrite")
  /\ UNCHANGED <<store, tags, batch, idx, cur, sizes, audio, music_id, title, artist,
                 acoustid_score, firstPersisted, storeAtStart>>
  /\ UNCHANGED normVars

\* The registry's artist taken as it comes, without the fallback
FinalArtistRegistryOnly(mb, artist_) == Get(mb, "mb_artist")

\* final_artist = mb_data.get("mb_artist") or artist
FinalArtist(mb, artist_) == Or(Get(mb, "mb_artist"), artist_)
\* final_genres = mb_data.get("genres", [])
FinalGenres(mb) == GetOr(mb, "genres", <<>>)

\* The tag write without its handler: a failure leaves process_file
TagWriteUnguarded ==
  /\ bpc = "running"
  /\ pc = "tagwrite"
  /\ \E fail \in TagFailures(tags[cur]) :
       /\ tags' = [tags EXCEPT ![cur] =
                     write_id3_tags(tags[cur], title, FinalArtist(mb_data, artist),
                                    Get(mb_data, "album"), FinalGenres(mb_data),
                                    Get(mb_data, "release_date"), fail)]
       /\ IF fail = "none"
          THEN /\ trace' = Append(trace, "tag_write")
               /\ Goto("upsert")
          ELSE /\ trace' = Append(trace, "tag_write_failed")
               /\ Propagate("FATAL_TAG")
  /\ UNCHANGED <<store, clock, batch, idx, cur, locals, regLog, firstPersisted,
                 storeAtStart>>
  /\ UNCHANGED normVars

\* The tag stage saving a partial document before the final upsert
TagWriteWithEarlySave ==
  /\ bpc = "running"
  /\ pc = "tagwrite"
  /\ \E fail \in TagFailures(tags[cur]) :
       /\ tags' = [tags EXCEPT ![cur] =
                     write_id3_tags(tags[cur], title, FinalArtist(mb_data, artist),
                                    Get(mb_data, "album"), FinalGenres(mb_data),
                                    Get(mb_data, "release_date"), fail)]
       /\ trace' = trace \o <<"upsert", IF fail = "none" THEN "tag_write"
                                                          ELSE "tag_write_failed">>
  /\ store' = UpdateOneSet(store, AbsPath(cur), [music_id |-> music_id])
  /\ Goto("upsert")
  /\ UNCHANGED <<clock, batch, idx, cur, locals, regLog, firstPersisted, storeAtStart>>
  /\ UNCHANGED normVars

TagWrite ==
  /\ bpc = "running"
  /\ pc = "tagwrite"
  /\ \E fail \in TagFailures(tags[cur]) :
       /\ tags' = [tags EXCEPT ![cur] =
                     write_id3_tags(tags[cur], title, FinalArtist(mb_data, artist),
                                    Get(mb_data, "album"), FinalGenres(mb_data),
                                    Get(mb_data, "release_date"), fail)]
       /\ trace' = Append(trace, IF fail = "none" THEN "tag_write"
                                                  ELSE "tag_write_failed")
  /\ Goto("upsert")
  /\ UNCHANGED <<store, clock, batch, idx, cur, locals, regLog, firstPersisted,
                 storeAtStart>>
  /\ UNCHANGED normVars

\* The document with the registry's own lower-cased album in album_lower
NewDocRegistryLower(now) ==
  ("album_lower" :> Get(mb_data, "album_lower")) @@
  BuildDoc(cur, music_id, title, FinalArtist(mb_data, artist), mb_data,
           FinalGenres(mb_data), audio.duration, audio.bitrate, acoustid_score, now)

\* The document with music_file as the path was listed, not resolved
NewDocListedPath(now) ==
  ("music_file" :> (Stem(cur) \o <<".mp3">>)) @@
  BuildDoc(cur, music_id, title, FinalArtist(mb_data, artist), mb_data,
           FinalGenres(mb_data), audio.duration, audio.bitrate, acoustid_score, now)

\* The document process_file builds at line 185 when the clock shows now
NewDoc(now) ==
  BuildDoc(cur, music_id, title, FinalArtist(mb_data, artist), mb_data,
           FinalGenres(mb_data), audio.duration, audio.bitrate, acoustid_score, now)

Upsert ==
  /\ bpc = "running"
  /\ pc = "upsert"
  /\ \E storeUp \in BOOLEAN :
       IF ~storeUp
       THEN /\ store' = store
            /\ firstPersisted' = firstPersisted
            /\ trace' = Append(trace, "upsert_failed")
            /\ Propagate("FATAL_STORE")
       ELSE /\ store' = UpdateOneSet(store, AbsPath(cur), NewDoc(clock))
            /\ firstPersisted' =
                 IF cur \in DOMAIN firstPersisted
                 THEN firstPersisted
                 ELSE (cur :> store'[AbsPath(cur)]) @@ firstPersisted
            /\ trace' = Append(trace, "upsert")
            /\ Return("PERSISTED")
  /\ UNCHANGED <<tags, clock, batch, idx, cur, locals, regLog, storeAtStart>>
  /\ UNCHANGED normVars

Next ==
  \/ StartBatch
  \/ NextFile
  \/ FinishBatch
  \/ DupCheck
  \/ StabilityCheck
  \/ Inspect
  \/ Identify
  \/ Enrich
  \/ TagWrite
  \/ Upsert

Spec == Init /\ [][Next]_vars

\* ------------------------------------------------------ the normaliser alone
\* Characters of the strings handed to normalise_string: an upper-case and a
\* lower-case letter, a punctuation character, whitespace
NormChars == {"A", "a", "-", " "}

RECURSIVE StringsOfLen(_)
StringsOfLen(n) ==
  IF n = 0 THEN {<<>>}
  ELSE {<<c>> \o t : c \in NormChars, t \in StringsOfLen(n - 1)}

Strings == UNION {StringsOfLen(n) : n \in 0..MaxLen}

InitNorm ==
  /\ store = EmptyStore
  /\ tags = [f \in Files |-> InitTags(f)]
  /\ clock = 0
  /\ batch = 0
  /\ bpc = "idle"
  /\ idx = 1
  /\ pc = "none"
  /\ cur = 1
  /\ sizes = <<>>
  /\ audio = None
  /\ music_id = None
  /\ title = None
  /\ artist = None
  /\ acoustid_score = None
  /\ mb_data = EmptyDict
  /\ trace = <<>>
  /\ outcome = [f \in Files |-> "none"]
  /\ regLog = <<>>
  /\ firstPersisted = <<>>
  /\ storeAtStart = store
  /\ nstr \in Strings
  /\ nres = <<>>

\* normalise_string is applied to the string, then to its own result.
Normalise ==
  /\ Len(nres) < 2
  /\ nres' = Append(nres, normalise_string(IF nres = <<>> THEN nstr
                                                         ELSE nres[Len(nres)]))
  /\ UNCHANGED <<store, tags, clock, batch, bpc, idx, pc, cur, locals, trace, outcome,
                 regLog, firstPersisted, storeAtStart, nstr>>

NextNorm == Normalise

SpecNorm == InitNorm /\ [][NextNorm]_vars

\* The pipeline started on a collection that holds nothing
InitEmpty == Init /\ store = EmptyStore

SpecEmpty == InitEmpty /\ [][Next]_vars

TypeOK ==
  /\ bpc \in {"idle", "running", "done", "crashed"}
  /\ pc \in {"none", "dupcheck", "stability", "inspect", "identify", "enrich",
              "tagwrite", "upsert", "returned", "raised"}
  /\ cur \in Files
  /\ batch \in 0..MaxBatches

\* ====================================================== properties
Range(seq) == {seq[i] : i \in 1..Len(seq)}
Last(seq) == seq[Len(seq)]

\* A process_file run is under way or has just ended
InRun == pc # "none"

\* Events of the trace that are work on the file beyond the skip checks
WorkEvents ==
  {"inspect", "inspect_failed", "fingerprint", "lookup", "registry",
   "registry_failed", "tag_write", "tag_write_failed", "upsert", "upsert_failed"}

\* C1 -- Idempotence of process_file: once process_file has completed its
\* upsert for a path, every later run on that path (the store answering the
\* probe) ends in SKIPPED_DUPLICATE having issued nothing but the duplicate
\* probe -- no fingerprint, lookup, registry call, tag write or store write --
\* and the stored document, timestamp included, stays what it was right
\* after that first upsert.
C1_Idempotence ==
  \A f \in DOMAIN firstPersisted :
    /\ AbsPath(f) \in DOMAIN store
    /\ store[AbsPath(f)] = firstPersisted[f]
    /\ (InRun /\ cur = f /\ pc # "dupcheck" /\ "upsert" \notin Range(trace)
          /\ "find_one_failed" \notin Range(trace))
       => /\ pc = "returned"
          /\ outcome[f] = "SKIPPED_DUPLICATE"
          /\ trace = <<"find_one">>
          /\ store = storeAtStart

\* A second run on a persisted file has ended in the duplicate skip, later
\* than the timestamp of the stored document.
C1_Witness ==
  /\ cur \in DOMAIN firstPersisted
  /\ pc = "returned"
  /\ outcome[cur] = "SKIPPED_DUPLICATE"
  /\ "upsert" \notin Range(trace)
  /\ clock > firstPersisted[cur]["date_added"]

\* C2 -- Stability gating: in a run where the size read after the wait
\* differs from the size read before it, process_file returns
\* SKIPPED_UNSTABLE and the run contains no audio inspection, fingerprint,
\* lookup, registry call, tag write or upsert; store and tags are untouched.
C2_StabilityGating ==
  (InRun /\ Len(sizes) = 2 /\ sizes[1] # sizes[2])
  => /\ pc = "returned"
     /\ outcome[cur] = "SKIPPED_UNSTABLE"
     /\ Range(trace) \cap WorkEvents = {}
     /\ store = storeAtStart

\* A run has met a file whose size changed during the wait.
C2_Witness ==
  /\ InRun
  /\ Len(sizes) = 2
  /\ sizes[1] > sizes[2]
  /\ outcome[cur] = "SKIPPED_UNSTABLE"

\* Number of registry calls among the events of a trace
RECURSIVE RegistryCalls(_)
RegistryCalls(tr) ==
  IF tr = <<>> THEN 0
  ELSE (IF Head(tr) \in {"registry", "registry_failed"} THEN 1 ELSE 0)
       + RegistryCalls(Tail(tr))

\* The run has left the enrichment stage behind
PastEnrich == pc \in {"tagwrite", "upsert", "returned", "raised"}

\* Identity resolution of the run degraded to the fallback
Degraded == "acoustid_error" \in Range(trace)

\* C3 -- Enrichment gating and rate limit, as claimed: a run whose identity
\* degraded to the fallback holds no registry call; a run resolved to a
\* candidate's external identifier holds exactly one registry call once it is
\* past enrichment; and consecutive registry calls of a batch are at least
\* one second apart.
C3_EnrichmentGating_Original ==
  /\ (InRun /\ Degraded) => RegistryCalls(trace) = 0
  /\ (InRun /\ "candidate" \in Range(trace) /\ PastEnrich)
       => RegistryCalls(trace) = 1
  /\ \A i \in 1..(Len(regLog) - 1) : regLog[i + 1] - regLog[i] >= RateLimitPause

FilePrefix == <<"f", "i", "l", "e", ":">>

\* C4 -- Fallback identity shape, as claimed: a document persisted by a run
\* whose fingerprint or lookup call failed has music_id "file:" followed by
\* the base name, title equal to the base name, artist "Unknown", a null
\* confidence score, and the run made no registry call.
C4_FallbackShape_Original ==
  (InRun /\ Degraded /\ pc = "returned" /\ outcome[cur] = "PERSISTED")
  => LET doc == store[AbsPath(cur)]
     IN /\ doc["music_id"] = FilePrefix \o Stem(cur)
        /\ doc["title"] = Stem(cur)
        /\ doc["artist"] = Unknown
        /\ doc["sources"]["acoustid_score"] = None
        /\ RegistryCalls(trace) = 0

\* C5 -- resolved_id is never null, as claimed: every document process_file
\* has written holds a non-null music_id and sources.musicbrainz_id.
C5_ResolvedIdNeverNull_Original ==
  \A f \in DOMAIN firstPersisted :
    /\ store[AbsPath(f)]["music_id"] # None
    /\ store[AbsPath(f)]["sources"]["musicbrainz_id"] # None

\* index_all has ended, by returning or by an exception
BatchOver == bpc \in {"done", "crashed"}

\* C6 -- Per-file failure isolation, as claimed: when a batch is over, every
\* file listed after one that vanished during the stability check or the
\* audio inspection has been processed in that batch.
C6_FailureIsolation_Original ==
  BatchOver =>
    \A f \in Files, g \in Files :
      (outcome[f] = "FATAL_VANISHED" /\ g > f) => outcome[g] # "none"

\* Every field process_file builds is present
Complete(doc) == DocFields \subseteq DOMAIN doc

\* C7 -- Storage unavailability is batch-fatal: when the store throws on the
\* duplicate probe or on the upsert for a file, the exception leaves
\* index_all (the batch is over, crashed), no file listed after it has been
\* processed, the failing run has written nothing to the store, and whatever
\* document of this pipeline the store holds for the file is complete.
C7_StorageFatal ==
  \A f \in Files :
    outcome[f] = "FATAL_STORE"
    => /\ bpc = "crashed"
       /\ pc = "raised"
       /\ cur = f
       /\ \A g \in Files : g > f => outcome[g] = "none"
       /\ store = storeAtStart
       /\ (AbsPath(f) \in DOMAIN store /\ "music_file" \in DOMAIN store[AbsPath(f)])
            => Complete(store[AbsPath(f)])

\* The upsert of a file that is not the last of the listing has failed.
C7_Witness ==
  /\ outcome[cur] = "FATAL_STORE"
  /\ cur < NumFiles
  /\ Last(trace) = "upsert_failed"
  /\ bpc = "crashed"

\* C8 -- Tag-write failure does not abort the pipeline: after a failed tag
\* write the run goes on to the upsert; unless the store itself fails the
\* run ends PERSISTED, and the stored fields are those of the document built
\* from identity, enrichment and audio data alone, whatever the tag write did.
C8_TagFailureContinues ==
  (InRun /\ "tag_write_failed" \in Range(trace))
  => /\ pc \in {"upsert", "returned", "raised"}
     /\ pc = "raised" => Last(trace) = "upsert_failed"
     /\ pc = "returned"
          => /\ outcome[cur] = "PERSISTED"
             /\ Last(trace) = "upsert"
             /\ LET doc == NewDoc(clock)
                IN \A k \in DocFields : store[AbsPath(cur)][k] = doc[k]

\* A run whose tag write failed has persisted its document.
C8_Witness ==
  /\ InRun
  /\ "tag_write_failed" \in Range(trace)
  /\ pc = "returned"
  /\ outcome[cur] = "PERSISTED"
  /\ AbsPath(cur) \in DOMAIN store

ExternalFailures == {"acoustid_error", "registry_failed"} \cup OtherErrors

\* C9 -- External failures never escape their stage, as claimed: no failure
\* of the fingerprint, lookup or registry call, of whatever kind, leaves
\* process_file, and a run that met one still reaches the upsert.
C9_ExternalFailuresContained_Original ==
  /\ \A f \in Files : outcome[f] # "FATAL_EXTERNAL"
  /\ (InRun /\ Range(trace) \cap ExternalFailures # {}
          /\ pc \in {"returned", "raised"})
       => Range(trace) \cap {"upsert", "upsert_failed"} # {}

\* C10 -- Full replacement on upsert, as claimed: when the upsert meets a
\* document already stored under the path's key, the stored document
\* afterwards is exactly the newly built one.
C10_FullReplacement_Original ==
  (InRun /\ pc = "returned" /\ outcome[cur] = "PERSISTED"
     /\ AbsPath(cur) \in DOMAIN storeAtStart)
  => store[AbsPath(cur)] = NewDoc(clock)

\* C11 -- Normalizer idempotence, as claimed: for every string s,
\* normalise_string(normalise_string(s)) = normalise_string(s).
C11_NormaliserIdempotent_Original ==
  Len(nres) = 2 => nres[2] = nres[1]

\* The tag k is the same in both containers: absent from both, or present
\* in both with one value
SameTag(a, b, k) ==
  /\ (k \in DOMAIN a) = (k \in DOMAIN b)
  /\ k \in DOMAIN a => a[k] = b[k]

\* C12 -- Tag-write non-destructiveness: every call of write_id3_tags leaves
\* the album tag of the file as it was when the album argument is null or
\* empty, and likewise the genre tag for the genres argument and the date tag
\* for the release date; a call that succeeds sets title and artist to its
\* arguments whatever they were.
C12_TagWriteNonDestructive ==
  [][(pc = "tagwrite" /\ pc' # "tagwrite")
       => /\ ~Truthy(Get(mb_data, "album"))
               => SameTag(tags[cur], tags'[cur], "album")
          /\ ~Truthy(FinalGenres(mb_data))
               => SameTag(tags[cur], tags'[cur], "genre")
          /\ ~Truthy(Get(mb_data, "release_date"))
               => SameTag(tags[cur], tags'[cur], "date")
          /\ trace'[Len(trace')] = "tag_write"
               => /\ tags'[cur]["title"] = title
                  /\ tags'[cur]["artist"] = FinalArtist(mb_data, artist)
     ]_vars

\* A tag write with a null album, empty genres and a null date has succeeded
\* on a file that carried all three tags, and they are still there.
C12_Witness ==
  /\ pc = "upsert"
  /\ Last(trace) = "tag_write"
  /\ ~Truthy(Get(mb_data, "album"))
  /\ ~Truthy(FinalGenres(mb_data))
  /\ ~Truthy(Get(mb_data, "release_date"))
  /\ {"album", "genre", "date"} \subseteq DOMAIN tags[cur]
  /\ tags[cur]["album"] = InitTags(cur)["album"]
  /\ tags[cur]["title"] # InitTags(cur)["title"]

\* C13 -- Batch termination, as claimed: a batch in which no file vanished
\* and the store never failed ends with the completion summary, whatever the
\* fingerprint, lookup and registry calls did, and every listed file has been
\* taken to a terminal outcome.
C13_BatchTermination_Original ==
  (BatchOver /\ \A f \in Files :
                  outcome[f] \notin {"FATAL_STORE", "FATAL_VANISHED"})
  => /\ bpc = "done"
     /\ \A f \in Files :
          outcome[f] \in {"SKIPPED_DUPLICATE", "SKIPPED_UNSTABLE", "PERSISTED"}

\* C14 -- The store is the record of completion: starting from an empty
\* store, a file has a document in the store exactly when a run on its path
\* completed the upsert; a file is skipped as duplicate in a batch only if a
\* run of an earlier batch persisted it, and every run on a file persisted
\* earlier whose probe answered takes the duplicate skip. Runs that ended
\* before the upsert leave nothing that a later probe could find.
C14_StoreIsRecord ==
  /\ \A f \in Files :
       /\ (f \in DOMAIN firstPersisted) <=> (AbsPath(f) \in DOMAIN store)
       /\ outcome[f] = "SKIPPED_DUPLICATE"
            => /\ f \in DOMAIN firstPersisted
               /\ firstPersisted[f]["date_added"] < StartTime(batch)
       /\ outcome[f] \in {"SKIPPED_UNSTABLE", "FATAL_VANISHED",
                           "FATAL_EXTERNAL", "FATAL_STORE"}
            => (f \in DOMAIN firstPersisted
                  => firstPersisted[f]["date_added"] < StartTime(batch))
  /\ (InRun /\ pc # "dupcheck" /\ trace[1] = "find_one")
       => ((outcome[cur] = "SKIPPED_DUPLICATE")
             <=> (cur \in DOMAIN firstPersisted /\ "upsert" \notin Range(trace)))

\* In the second batch the first file was skipped as duplicate while the
\* second file, whose run in the first batch ended before the upsert, has
\* gone through the pipeline and been persisted for the first time.
C14_Witness ==
  /\ batch = 2
  /\ outcome[1] = "SKIPPED_DUPLICATE"
  /\ outcome[2] = "PERSISTED"
  /\ firstPersisted[2]["date_added"] >= StartTime(2)
  /\ DOMAIN store = {AbsPath(1), AbsPath(2)}

\* The artist the lookup of the current run gave, None when the run got no
\* candidate
LookupArtist ==
  IF "candidate" \in Range(trace)
  THEN (CHOOSE c \in Candidates(cur) : TRUE).artist
  ELSE None

\* Registry credit when non-empty, else lookup artist when non-empty, else
\* the literal "Unknown"
ExpectedArtist ==
  LET credit == IF "mb_artist" \in DOMAIN mb_data THEN mb_data["mb_artist"] ELSE None
  IN IF Truthy(credit) THEN credit
     ELSE IF Truthy(LookupArtist) THEN LookupArtist
     ELSE Unknown

\* C15 -- Artist is never null: the artist of every document process_file
\* has persisted and of every tag write that succeeded is a non-empty string;
\* in the run that wrote it, it is the registry's artist credit when
\* enrichment returned a non-empty one, otherwise the lookup's artist when
\* non-empty, otherwise "Unknown".
C15_ArtistNeverNull ==
  /\ \A f \in DOMAIN firstPersisted : Truthy(store[AbsPath(f)]["artist"])
  /\ (InRun /\ pc = "upsert" /\ Last(trace) = "tag_write")
       => /\ tags[cur]["artist"] = ExpectedArtist
          /\ Truthy(tags[cur]["artist"])
  /\ (InRun /\ pc = "returned" /\ outcome[cur] = "PERSISTED")
       => store[AbsPath(cur)]["artist"] = ExpectedArtist

\* A run whose enrichment returned no artist credit has written the lookup's
\* artist to the tags and to the document.
C15_Witness ==
  /\ pc = "returned"
  /\ outcome[cur] = "PERSISTED"
  /\ "registry" \in Range(trace)
  /\ "tag_write" \in Range(trace)
  /\ ~Truthy(mb_data["mb_artist"])
  /\ Truthy(LookupArtist)
  /\ store[AbsPath(cur)]["artist"] = LookupArtist
  /\ tags[cur]["artist"] = LookupArtist

\* How often event e occurs in the trace tr
Count(tr, e) == Cardinality({i \in DOMAIN tr : tr[i] = e})

Skipped == {"SKIPPED_DUPLICATE", "SKIPPED_UNSTABLE"}
RunOver == InRun /\ pc \in {"returned", "raised"}

\* C16 -- Linear stage order with a single store write, as claimed: every run
\* that is over and was not skipped has performed exactly one store write, as
\* its last stage; a skipped run has performed none.
C16_SingleStoreWrite_Original ==
  RunOver =>
    IF outcome[cur] \in Skipped
    THEN "upsert" \notin Range(trace)
    ELSE Count(trace, "upsert") = 1 /\ Last(trace) = "upsert"

\* The stage an event of the trace belongs to
StageOf(e) ==
  CASE e \in {"find_one", "find_one_failed"} -> 1
    [] e \in {"stat", "stat_failed"} -> 2
    [] e \in {"inspect", "inspect_failed"} -> 3
    [] e \in {"fingerprint", "lookup", "acoustid_error", "other_error",
              "no_candidate", "candidate"} -> 4
    [] e \in {"registry", "registry_failed"} -> 5
    [] e \in {"tag_write", "tag_write_failed"} -> 6
    [] e \in {"upsert", "upsert_failed"} -> 7

\* C16 -- Linear stage order with a single store write: in every run the
\* events occur in the order duplicate probe, stability check, inspection,
\* identity resolution, enrichment attempt (at most one, or none), tag-write
\* attempt (at most one), upsert; a run writes the store at most once, the
\* write is its last event, and the store differs from what the run found
\* exactly when the write happened. A run that ends PERSISTED went through
\* identity resolution and one tag-write attempt and wrote exactly once; a
\* run that was skipped or ended by an exception wrote nothing.
C16_SingleStoreWrite ==
  InRun =>
    /\ \A i \in 1..(Len(trace) - 1) : StageOf(trace[i]) <= StageOf(trace[i + 1])
    /\ Cardinality({i \in DOMAIN trace : StageOf(trace[i]) = 5}) <= 1
    /\ Cardinality({i \in DOMAIN trace : StageOf(trace[i]) = 6}) <= 1
    /\ Count(trace, "upsert") <= 1
    /\ "upsert" \in Range(trace) => Last(trace) = "upsert"
    /\ (store # storeAtStart) <=> ("upsert" \in Range(trace))
    /\ (outcome[cur] = "PERSISTED") <=> ("upsert" \in Range(trace))
    /\ outcome[cur] = "PERSISTED"
         => /\ Range(trace) \cap {"acoustid_error", "no_candidate", "candidate"} # {}
            /\ Cardinality({i \in DOMAIN trace : StageOf(trace[i]) = 6}) = 1

\* A run has gone through lookup, registry call and tag write and ended with
\* its one store write.
C16_Witness ==
  /\ pc = "returned"
  /\ outcome[cur] = "PERSISTED"
  /\ {"candidate", "registry", "tag_write"} \subseteq Range(trace)
  /\ Last(trace) = "upsert"
  /\ store # storeAtStart

\* C17 -- Check order at the head of the pipeline, as claimed: the first
\* thing a run does is consult the Stability Detector, and a run that took
\* the duplicate skip has passed the stability check before.
C17_CheckOrder_Original ==
  (InRun /\ trace # <<>>)
  => /\ StageOf(trace[1]) = 2
     /\ outcome[cur] = "SKIPPED_DUPLICATE"
          => Count(trace, "stat") = 2 /\ sizes[1] = sizes[2]

\* C17 -- Check order at the head of the pipeline: the first thing a run
\* does is probe the store for a document of the path; the Stability
\* Detector is consulted after it, only for a file the probe did not find,
\* and before audio inspection and identity resolution. The duplicate skip
\* is taken on the probe alone, without any stability check; the unstable
\* skip, and every later stage, only for a file not yet persisted, and every
\* later stage only after two equal size reads.
C17_CheckOrder ==
  (InRun /\ trace # <<>>)
  => /\ StageOf(trace[1]) = 1
     /\ outcome[cur] = "SKIPPED_DUPLICATE"
          => /\ trace = <<"find_one">>
             /\ sizes = <<>>
             /\ HasMusicFile(storeAtStart, AbsPath(cur))
     /\ (\E i \in DOMAIN trace : StageOf(trace[i]) = 2)
          => /\ trace[1] = "find_one"
             /\ ~HasMusicFile(storeAtStart, AbsPath(cur))
     /\ (\E i \in DOMAIN trace : StageOf(trace[i]) >= 3)
          => /\ trace[2] = "stat" /\ trace[3] = "stat"
             /\ Len(sizes) = 2 /\ sizes[1] = sizes[2]

\* A file already persisted has been skipped as duplicate on the probe alone:
\* no size was read, and no time passed in the run.
C17_Witness ==
  /\ pc = "returned"
  /\ outcome[cur] = "SKIPPED_DUPLICATE"
  /\ trace = <<"find_one">>
  /\ sizes = <<>>
  /\ cur = 2
  /\ clock = StartTime(batch)

\* C18 -- Normalized fields are always recomputed: every document
\* process_file has written holds title_lower = normalise_string(title),
\* artist_lower = normalise_string(artist), album_lower =
\* normalise_string(album) when album is non-empty and null otherwise, and
\* genres_lower of the length of genres with genres_lower[i] =
\* normalise_string(genres[i]); the key and music_file are the absolute
\* path as it is, and music_id and sources.musicbrainz_id the identifier the
\* run resolved, as it is.
C18_NormalisedRecomputed ==
  /\ \A f \in DOMAIN firstPersisted :
       LET doc == store[AbsPath(f)]
       IN /\ doc["title_lower"] = normalise_string(doc["title"])
          /\ doc["artist_lower"] = normalise_string(doc["artist"])
          /\ doc["album_lower"] = IF Truthy(doc["album"])
                                  THEN normalise_string(doc["album"]) ELSE None
          /\ Len(doc["genres_lower"]) = Len(doc["genres"])
          /\ \A i \in DOMAIN doc["genres"] :
               doc["genres_lower"][i] = normalise_string(doc["genres"][i])
          /\ doc["_id"] = AbsPath(f)
          /\ doc["music_file"] = AbsPath(f)
          /\ doc["sources"]["musicbrainz_id"] = doc["music_id"]
  /\ (InRun /\ pc = "returned" /\ outcome[cur] = "PERSISTED")
       => store[AbsPath(cur)]["music_id"] = music_id

\* A document is stored whose title, album and genres are there, with an
\* album and a path that normalisation would change.
C18_Witness ==
  /\ 1 \in DOMAIN firstPersisted
  /\ Truthy(store[AbsPath(1)]["album"])
  /\ store[AbsPath(1)]["album_lower"] # Lower(store[AbsPath(1)]["album"])
  /\ Len(store[AbsPath(1)]["genres"]) = 2
  /\ store[AbsPath(1)]["title_lower"] # store[AbsPath(1)]["title"]
  /\ store[AbsPath(1)]["_id"] # normalise_string(AbsPath(1))
  /\ store[AbsPath(1)]["music_id"] = MBID1

\* C19 -- Key consistency: starting from an empty store, every stored
\* document sits under the absolute path of a file a run persisted, and its
\* _id and its music_file are that path; the store holds one document per
\* persisted path and no other; and whenever a run reaches the upsert, the
\* store holds no document under the key it is about to write.
C19_KeyConsistency ==
  /\ \A k \in DOMAIN store :
       /\ store[k]["_id"] = k
       /\ store[k]["music_file"] = k
       /\ \E f \in DOMAIN firstPersisted : k = AbsPath(f)
  /\ Cardinality(DOMAIN store) = Cardinality(DOMAIN firstPersisted)
  /\ (InRun /\ pc = "upsert") => AbsPath(cur) \notin DOMAIN store
  /\ (InRun /\ "upsert" \in Range(trace)) => AbsPath(cur) \notin DOMAIN storeAtStart

\* In a later batch a run has reached the upsert while the store already
\* holds the document of another file.
C19_Witness ==
  /\ batch = 2
  /\ pc = "upsert"
  /\ cur = 2
  /\ DOMAIN store = {AbsPath(1)}
  /\ outcome[1] = "SKIPPED_DUPLICATE"

====
